---- MODULE Spec2Model ----
(***************************************************************************)
(* Rural emergency dispatch: the one-step dispatch environment (env.py,    *)
(* data_generator.py) and the tabular Q-learning agent (rl_agent.py).      *)
(*                                                                         *)
(* Conventions                                                             *)
(*  - Python's None is the empty tuple <<>>; an optional integer n is      *)
(*    <<n>>.  A patient without a required specialty has                   *)
(*    required_specialty = NoSpecialty.                                    *)
(*  - Rewards are floats that are whole multiples of 1/Unit (every term of *)
(*    the reward is an integer or an integer divided by 2.0); the model    *)
(*    holds reward * Unit as an integer, which is exact.                   *)
(*  - Lists are functions on 0..n-1, as Python indexes them.               *)
(*  - reset_state is the index the latest reset returned; driver is the    *)
(*    state of the script that drives the environment (train.py, demo.py,  *)
(*    app.py), None when the environment or the agent is called directly.  *)
(***************************************************************************)
EXTENDS Integers, Sequences, FiniteSets, TLC

VARIABLES config, hospitals, ambulances, patient, done, mutated, reset_state, agent,
          nlearn, driver, ret

envVars == <<config, hospitals, ambulances, patient, done, mutated, reset_state>>
agentVars == <<agent, nlearn>>
vars == <<config, hospitals, ambulances, patient, done, mutated, reset_state, agent,
          nlearn, driver, ret>>

(***************************************************************************)
(* Configuration.  config holds the arguments RuralEnv.__init__ keeps on   *)
(* the environment: self.grid, self.n_hospitals, self.n_ambulances.        *)
(***************************************************************************)
RuralEnvArgs(rows, columns, nh, na) ==
    [grid |-> <<rows, columns>>, n_hospitals |-> nh, n_ambulances |-> na]

\* RuralEnv(grid=(4,4), n_hospitals=6, n_ambulances=3): the defaults of
\* RuralEnv.__init__, the call of train.py and of demo.py and the initial
\* selection of app.py
DefaultArgs == RuralEnvArgs(4, 4, 6, 3)

GridRows == config.grid[1]
GridCols == config.grid[2]
n_hospitals == config.n_hospitals
n_ambulances == config.n_ambulances

cols == GridCols
action_space == n_ambulances * n_hospitals
n_states == 3 * n_ambulances * 2

None == <<>>
Some(x) == <<x>>
NoSpecialty == "None"

\* rewards are held as integer multiples of 1/Unit (the 2.0 of reward -= time_penalty / 2.0)
Unit == 2

(***************************************************************************)
(* data_generator.py                                                       *)
(***************************************************************************)
Zones == 0 .. (GridRows * GridCols - 1)

Abs(n) == IF n < 0 THEN -n ELSE n

manhattan_zone_distance(z1, z2, c) ==
    Abs((z1 \div c) - (z2 \div c)) + Abs((z1 % c) - (z2 % c))

SpecialtyNames == {"trauma", "cardiac", "maternity", "pediatrics", "general"}

\* ranges of generate_hospitals: randint(10, 60), randint(0, 8), randint(0, min(10, total))
MinTotalBeds == 10
MaxTotalBeds == 60
MaxIcuTotal == 8
MaxInitialBeds == 10

Min(a, b) == IF a < b THEN a ELSE b

\* the specialties dicts: trauma, cardiac, maternity and pediatrics are drawn,
\* general is always True
Flags(trauma, cardiac, maternity, pediatrics) ==
    { [s \in SpecialtyNames |-> IF s = "trauma" THEN t
                                 ELSE IF s = "cardiac" THEN c
                                 ELSE IF s = "maternity" THEN m
                                 ELSE IF s = "pediatrics" THEN pd
                                 ELSE TRUE] :
        t \in trauma, c \in cardiac, m \in maternity, pd \in pediatrics }

\* every dict generate_hospitals can produce
AllFlags == Flags(BOOLEAN, BOOLEAN, BOOLEAN, BOOLEAN)

\* the lists xs of length n with xs[i] \in S[i] for every index i
RECURSIVE ListsOf(_, _)
ListsOf(S, n) ==
    IF n = 0 THEN { <<>> }
    ELSE { [i \in 0 .. n - 1 |-> IF i = n - 1 THEN x ELSE xs[i]] :
             xs \in ListsOf(S, n - 1), x \in S[n - 1] }

(***************************************************************************)
(* The generators draw from Python's random module.  A draw D names, for   *)
(* every random call, the values of its range that are enumerated: each    *)
(* call returns any value that lies both in the code's range and in D.     *)
(* D.hospitals[i] holds the sets of the calls made for hospital i,         *)
(* D.ambulances[i] those for ambulance i, D.patient those for the patient, *)
(* each under the key of the dict entry the call fills.                    *)
(***************************************************************************)
\* one hospital record of generate_hospitals, with id i
HospitalRecords(D, i) ==
    { [id |-> i, zone |-> z, total_beds |-> total, available_beds |-> available,
       icu_total |-> icu[1], icu_available |-> icu[2], specialties |-> sp] :
         z \in D.hospitals[i].zone \cap Zones,
         total \in D.hospitals[i].total_beds \cap (MinTotalBeds .. MaxTotalBeds),
         icu \in UNION { { <<t, a>> : a \in IF t > 0
                                             THEN D.hospitals[i].icu_available \cap (0 .. t)
                                             ELSE {0} } :
                          t \in D.hospitals[i].icu_total \cap (0 .. MaxIcuTotal) },
         available \in D.hospitals[i].available_beds \cap (0 .. MaxInitialBeds),
         sp \in D.hospitals[i].specialties \cap AllFlags }

generate_hospitals(D) ==
    { hs \in ListsOf([i \in 0 .. n_hospitals - 1 |-> HospitalRecords(D, i)], n_hospitals) :
        \A i \in 0 .. n_hospitals - 1 :
            hs[i].id = i /\ hs[i].available_beds <= Min(MaxInitialBeds, hs[i].total_beds) }

\* mutant: the status the docstring names ("status = 0 (free)") instead of "idle"
generate_ambulances_Free(D) ==
    { [i \in 0 .. n_ambulances - 1 |-> [id |-> i, zone |-> z[i], status |-> "free"]] :
        z \in ListsOf([i \in 0 .. n_ambulances - 1 |-> D.ambulances[i].zone \cap Zones],
                      n_ambulances) }

generate_ambulances(D) ==
    { [i \in 0 .. n_ambulances - 1 |-> [id |-> i, zone |-> z[i], status |-> "idle"]] :
        z \in ListsOf([i \in 0 .. n_ambulances - 1 |-> D.ambulances[i].zone \cap Zones],
                      n_ambulances) }

generate_patient(D) ==
    { [zone |-> z, severity |-> sev, required_specialty |-> sp] :
        z \in D.patient.zone \cap Zones,
        sev \in D.patient.severity \cap {0, 1, 2},
        sp \in D.patient.required_specialty
                 \cap ((SpecialtyNames \ {"general"}) \cup {NoSpecialty}) }

MaxBedsDrawn == 1

\* the draw of one hospital: the smallest total, one ICU place
HospitalDraw(z, icu, beds, flags) ==
    [zone |-> z, total_beds |-> {MinTotalBeds}, available_beds |-> beds,
     icu_total |-> {1}, icu_available |-> icu, specialties |-> flags]

\* the draw of a hospital that comes out full, offering general care only; it
\* has no ICU, so that no call is made for icu_available
FullHospital(i) ==
    [HospitalDraw({2 * i + 1}, {}, {0}, Flags({FALSE}, {FALSE}, {FALSE}, {FALSE}))
        EXCEPT !.icu_total = {0}]

\* the draw of the ambulances: ambulance 0 at one of the zones z0, ambulance 1 in
\* the far corner, ambulance 2 next to zone 0
AmbulanceDraw(z0) ==
    [i \in 0 .. n_ambulances - 1 |->
        [zone |-> IF i = 0 THEN z0 ELSE IF i = 1 THEN {15} ELSE {1}]]

\* the draw of Spec: any sequence of calls
Drawn ==
    [hospitals |-> [i \in 0 .. n_hospitals - 1 |->
                      IF i = 0
                      THEN HospitalDraw({6}, {1}, 0 .. MaxBedsDrawn,
                                        Flags({TRUE}, {FALSE}, {FALSE}, {FALSE}))
                      ELSE IF i = 1
                      THEN HospitalDraw({1}, {1}, {1}, Flags({FALSE}, {TRUE}, {TRUE}, {FALSE}))
                      ELSE FullHospital(i)],
     ambulances |-> AmbulanceDraw({0, 15}),
     patient |-> [zone |-> {0}, severity |-> {0, 1, 2},
                  required_specialty |-> {"trauma", NoSpecialty}]]

\* the draw of StepSpec: step alone, on more kinds of hospital
DrawnWide ==
    [hospitals |-> [i \in 0 .. n_hospitals - 1 |->
                      IF i = 0
                      THEN HospitalDraw({6}, {0, 1}, 0 .. MaxBedsDrawn,
                                        Flags(BOOLEAN, {FALSE}, {FALSE}, {TRUE}))
                      ELSE IF i = 1
                      THEN HospitalDraw({1}, {1}, {1}, Flags({TRUE}, {FALSE}, {TRUE}, {FALSE}))
                      ELSE FullHospital(i)],
     ambulances |-> AmbulanceDraw({0}),
     patient |-> [zone |-> {0}, severity |-> {0, 1, 2},
                  required_specialty |-> {"trauma", NoSpecialty}]]

\* the draw of DispatchSpec: every specialties dict, every required specialty
DrawnDispatch ==
    [hospitals |-> [i \in 0 .. n_hospitals - 1 |->
                      IF i = 0
                      THEN HospitalDraw({6}, {0, 1}, 0 .. MaxBedsDrawn, AllFlags)
                      ELSE IF i = 1
                      THEN HospitalDraw({1}, {1}, {1}, Flags({FALSE}, {TRUE}, {FALSE}, {FALSE}))
                      ELSE FullHospital(i)],
     ambulances |-> AmbulanceDraw({0, 15}),
     patient |-> [zone |-> {0}, severity |-> {0, 2},
                  required_specialty |->
                      {"trauma", "cardiac", "maternity", "pediatrics", NoSpecialty}]]

(***************************************************************************)
(* env.py                                                                  *)
(***************************************************************************)
\* np.argmin: the first index holding the minimum
ArgMin(d) ==
    CHOOSE i \in DOMAIN d :
        /\ \A j \in DOMAIN d : d[i] <= d[j]
        /\ \A j \in DOMAIN d : j < i => d[j] > d[i]

\* mutant: severity counted from 1
encode_state_OneBased(p, ambs, hosps) ==
    LET dists == [i \in DOMAIN ambs |-> manhattan_zone_distance(p.zone, ambs[i].zone, cols)]
        spec == p.required_specialty
        hosp_has == IF spec = NoSpecialty THEN 1
                    ELSE IF \E i \in DOMAIN hosps :
                              hosps[i].specialties[spec] /\ hosps[i].available_beds > 0
                         THEN 1 ELSE 0
    IN  (p.severity + 1) * (n_ambulances * 2) + ArgMin(dists) * 2 + hosp_has

\* mutant: the specialty flag looks at the specialties only, not at the free beds
encode_state_AnyBeds(p, ambs, hosps) ==
    LET dists == [i \in DOMAIN ambs |-> manhattan_zone_distance(p.zone, ambs[i].zone, cols)]
        spec == p.required_specialty
        hosp_has == IF spec = NoSpecialty THEN 1
                    ELSE IF \E i \in DOMAIN hosps : hosps[i].specialties[spec]
                         THEN 1 ELSE 0
    IN  p.severity * (n_ambulances * 2) + ArgMin(dists) * 2 + hosp_has

\* RuralEnv._encode_state
encode_state(p, ambs, hosps) ==
    LET sev == p.severity
        dists == [i \in DOMAIN ambs |-> manhattan_zone_distance(p.zone, ambs[i].zone, cols)]
        nearest_amb == ArgMin(dists)
        spec == p.required_specialty
        hosp_has == IF spec = NoSpecialty THEN 1
                    ELSE IF \E i \in DOMAIN hosps :
                              /\ spec \in DOMAIN hosps[i].specialties
                              /\ hosps[i].specialties[spec]
                              /\ hosps[i].available_beds > 0
                         THEN 1 ELSE 0
    IN  sev * (n_ambulances * 2) + nearest_amb * 2 + hosp_has

\* Python list indexing: a[i] for -len <= i < len; anything else raises IndexError
InList(i, n) == -n <= i /\ i < n
ListIndex(i, n) == IF i < 0 THEN n + i ELSE i

InvalidActionReward == -50
NotIdleReward == -40
NoIcuPenalty == 40
NoBedsPenalty == 20
NoSpecialtyPenalty == 10
MinutesPerHop == 6
SuccessBonus == 50
FailurePenalty == 5
Critical == 2

\* dist: patient -> ambulance -> hospital, in zone hops
RouteHops(p, amb, hosp) ==
    manhattan_zone_distance(p.zone, amb.zone, cols)
      + manhattan_zone_distance(amb.zone, hosp.zone, cols)

\* spec_ok: hosp["specialties"].get(spec, False), a missing key counting as False
SpecOk(p, hosp) ==
    LET spec == p.required_specialty
    IN  ~(spec # NoSpecialty
          /\ ~(spec \in DOMAIN hosp.specialties /\ hosp.specialties[spec]))

NoIcu(p, hosp) == p.severity = Critical /\ hosp.icu_available <= 0

NoBeds(hosp) == hosp.available_beds <= 0

\* mutant: the ICU check does not clear success
Success_IcuIgnored(no_icu, no_beds) == ~no_beds

\* success starts True and is cleared by the ICU check and by the bed check
Success(no_icu, no_beds) == ~no_icu /\ ~no_beds

\* reason: the flags appended in the order of the three checks
Reason(no_icu, no_beds, spec_ok) ==
    (IF no_icu THEN "no_icu;" ELSE "")
      \o (IF no_beds THEN "no_beds;" ELSE "")
      \o (IF ~spec_ok THEN "no_specialty;" ELSE "")

\* mutant: no 1.5 factor for critical patients
TimePenaltyUnits_Flat(sev, travel_time) == (travel_time * Unit) \div 2

\* (time_penalty / 2.0) * Unit: time_penalty is travel_time, times 1.5 (= 3/2) when critical
TimePenaltyUnits(sev, travel_time) ==
    LET time_penalty2 == IF sev = Critical THEN travel_time * 3 ELSE travel_time * 2
    IN  (time_penalty2 * Unit) \div 4

\* reward * Unit
Reward(sev, no_icu, no_beds, spec_ok, travel_time) ==
    (IF no_icu THEN -NoIcuPenalty * Unit ELSE 0)
      + (IF no_beds THEN -NoBedsPenalty * Unit ELSE 0)
      + (IF ~spec_ok THEN -NoSpecialtyPenalty * Unit ELSE 0)
      - TimePenaltyUnits(sev, travel_time)
      + (IF Success(no_icu, no_beds) THEN SuccessBonus * Unit ELSE -FailurePenalty * Unit)

\* mutant: the bed is taken whether or not the dispatch succeeded
BedsAfter_Always(success, beds) == beds - 1

\* mutant: an ICU place is taken for every admitted patient
IcuAfter_AnySeverity(success, sev, icu) == IF success /\ icu > 0 THEN icu - 1 ELSE icu

\* occupy bed
BedsAfter(success, beds) == IF success /\ beds > 0 THEN beds - 1 ELSE beds

IcuAfter(success, sev, icu) == IF success /\ sev = Critical /\ icu > 0 THEN icu - 1 ELSE icu

\* the scoring part of RuralEnv.step, for the decoded indices
Score(hosps, ambs, p, amb_idx, hosp_idx) ==
    LET amb == ambs[ListIndex(amb_idx, n_ambulances)]
        hi == ListIndex(hosp_idx, n_hospitals)
        hosp == hosps[hi]
        dist == RouteHops(p, amb, hosp)
        travel_time == dist * MinutesPerHop
        spec_ok == SpecOk(p, hosp)
        no_icu == NoIcu(p, hosp)
        no_beds == NoBeds(hosp)
        success == Success(no_icu, no_beds)
        hosps1 == [hosps EXCEPT ![hi] =
                     [@ EXCEPT !.available_beds = BedsAfter(success, hosp.available_beds),
                               !.icu_available = IcuAfter(success, p.severity, hosp.icu_available)]]
    IN  [hospitals |-> hosps1,
         done |-> TRUE,
         ret |-> [raised |-> "",
                  next_state |-> Some(encode_state(p, ambs, hosps1)),
                  reward |-> Reward(p.severity, no_icu, no_beds, spec_ok, travel_time),
                  done |-> TRUE,
                  info |-> [ambulance |-> amb_idx, hospital |-> hosp_idx,
                            dist_hops |-> dist, travel_time_min |-> travel_time,
                            success |-> success, reason |-> Reason(no_icu, no_beds, spec_ok)]]]

\* mutant: the two halves of the decoding swapped
DecodeAction_Swapped(action) ==
    [amb_idx |-> action % n_hospitals, hosp_idx |-> action \div n_hospitals]

\* amb_idx = action // self.n_hospitals, hosp_idx = action % self.n_hospitals
DecodeAction(action) ==
    [amb_idx |-> action \div n_hospitals, hosp_idx |-> action % n_hospitals]

\* RuralEnv.step: the new hospitals, the new self.done and what the call returns
StepOutcome(hosps, ambs, p, d, action) ==
    LET amb_idx == DecodeAction(action).amb_idx
        hosp_idx == DecodeAction(action).hosp_idx
    IN  IF amb_idx >= n_ambulances \/ hosp_idx >= n_hospitals
        THEN [hospitals |-> hosps, done |-> d,
              ret |-> [raised |-> "", next_state |-> None,
                       reward |-> InvalidActionReward * Unit, done |-> TRUE,
                       info |-> [reason |-> "invalid_action"]]]
        ELSE IF ~InList(amb_idx, n_ambulances) \/ ~InList(hosp_idx, n_hospitals)
        THEN [hospitals |-> hosps, done |-> d, ret |-> [raised |-> "IndexError"]]
        ELSE IF ambs[ListIndex(amb_idx, n_ambulances)].status # "idle"
        THEN [hospitals |-> hosps, done |-> d,
              ret |-> [raised |-> "", next_state |-> None,
                       reward |-> NotIdleReward * Unit, done |-> TRUE,
                       info |-> [reason |-> "ambulance_not_idle"]]]
        ELSE Score(hosps, ambs, p, amb_idx, hosp_idx)

\* the integers tried as actions: ActionSlack beyond each end of
\* -action_space .. action_space - 1
ActionSlack == 1
ActionInputs == (-action_space - ActionSlack) .. (action_space - 1 + ActionSlack)

\* what the last call was: its name, its argument and what it returned or raised
CallRecord(op, arg, r) == [op |-> op, arg |-> arg, result |-> r]

\* what reset leaves and returns, for one outcome of the generators
EnvReset(h, a, p) ==
    /\ hospitals' = h
    /\ ambulances' = a
    /\ patient' = p
    /\ done' = FALSE
    /\ ret' = CallRecord("reset", 0, [raised |-> "", state |-> encode_state(p, a, h)])
    /\ reset_state' = encode_state(p, a, h)
    /\ mutated' = FALSE
    /\ UNCHANGED config

ResetTo(h, a, p) ==
    /\ EnvReset(h, a, p)
    /\ UNCHANGED agentVars
    /\ UNCHANGED driver

\* RuralEnv.__init__ ends in self.reset()
ConstructedEnv(args, D) ==
    /\ config = args
    /\ \E h \in generate_hospitals(D), a \in generate_ambulances(D), p \in generate_patient(D) :
        /\ hospitals = h
        /\ ambulances = a
        /\ patient = p
        /\ done = FALSE
        /\ ret = CallRecord("reset", 0, [raised |-> "", state |-> encode_state(p, a, h)])
        /\ reset_state = encode_state(p, a, h)
        /\ mutated = FALSE

\* an environment constructed on its own: no agent, no driving script
Constructed(D) ==
    /\ ConstructedEnv(DefaultArgs, D)
    /\ agent = None
    /\ nlearn = 0
    /\ driver = None

Init == Constructed(Drawn)

\* RuralEnv.reset
Reset ==
    \E h \in generate_hospitals(Drawn), a \in generate_ambulances(Drawn),
       p \in generate_patient(Drawn) : ResetTo(h, a, p)

\* RuralEnv.step(action)
EnvStep(action) ==
    \E o \in {StepOutcome(hospitals, ambulances, patient, done, action)} :
        /\ hospitals' = o.hospitals
        /\ done' = o.done
        /\ ret' = CallRecord("step", action, o.ret)
        /\ UNCHANGED <<config, ambulances, patient, mutated, reset_state>>

Step(action) ==
    /\ EnvStep(action)
    /\ UNCHANGED agentVars
    /\ UNCHANGED driver

(***************************************************************************)
(* render_state_readable hands out the environment's own ambulance dicts,  *)
(* so a caller can overwrite a status between calls.  The environment      *)
(* itself never writes a status after generate_ambulances.                 *)
(***************************************************************************)
StatusValues == {"idle", "busy"}

SetStatus(i, st) ==
    /\ ambulances[i].status # st
    /\ ambulances' = [ambulances EXCEPT ![i].status = st]
    /\ mutated' = TRUE
    /\ ret' = CallRecord("external", i, [raised |-> ""])
    /\ UNCHANGED <<config, hospitals, patient, done, reset_state>>
    /\ UNCHANGED agentVars
    /\ UNCHANGED driver

Next ==
    \/ Reset
    \/ \E action \in ActionInputs : Step(action)
    \/ \E i \in 0 .. n_ambulances - 1, st \in StatusValues : SetStatus(i, st)

\* any sequence of reset and step calls on a constructed environment
Spec == Init /\ [][Next]_vars

\* step alone, called any number of times on a constructed environment
InitWide == Constructed(DrawnWide)

NextStep ==
    \/ \E action \in ActionInputs : Step(action)
    \/ \E i \in 0 .. n_ambulances - 1, st \in StatusValues : SetStatus(i, st)

StepSpec == InitWide /\ [][NextStep]_vars

\* step called any number of times with actions of its documented domain,
\* 0 .. n_ambulances * n_hospitals - 1, after the reset of the constructor
NextDispatch == \E action \in 0 .. action_space - 1 : Step(action)

InitDispatch == Constructed(DrawnDispatch)

DispatchSpec == InitDispatch /\ [][NextDispatch]_vars

(***************************************************************************)
(* rl_agent.py.  A float is an IEEE-754 double, held as the tuple          *)
(* <<s, m, e>> of value s * m * 2^e: the sign s is 1 or -1, the mantissa m *)
(* is a natural number below 2^53 written as its list of limbs in base     *)
(* 2^14, least significant first, and e is the binary exponent.  The       *)
(* mantissa of a nonzero double is odd, so that equal doubles are equal    *)
(* tuples; 0.0 is <<1, <<>>, 0>>.  Each operation computes the exact       *)
(* result and rounds it once to the nearest 53-bit mantissa, ties to the   *)
(* even one, as the hardware does.  -0.0 is held as 0.0 (the code only     *)
(* adds, subtracts, multiplies and compares, which do not tell them        *)
(* apart); the exponent is not bounded, every value the runs below reach   *)
(* being far from the overflow and the subnormal range.  The operations    *)
(* are functions, so that their arguments are evaluated once.              *)
(***************************************************************************)
LimbBits == 14
Base == 16384
MantissaBits == 53
Limbs == Seq(Nat)
Floats == {1, -1} \X Limbs \X Int

Pow2[k \in Nat] == IF k = 0 THEN 1 ELSE 2 * Pow2[k - 1]

\* the number of bits of n
Bits[n \in Nat] == IF n = 0 THEN 0 ELSE 1 + Bits[n \div 2]

\* the number of zero bits below the lowest one bit of n > 0
LowZeros[n \in Nat] == IF n % 2 = 1 THEN 0 ELSE 1 + LowZeros[n \div 2]

First(a) == IF a = <<>> THEN 0 ELSE a[1]
Rest(a) == IF a = <<>> THEN <<>> ELSE Tail(a)

\* the limbs of the natural number n
FromNat[n \in Nat] == IF n = 0 THEN <<>> ELSE <<n % Base>> \o FromNat[n \div Base]

\* a without its most significant zero limbs
Trim[a \in Limbs] ==
    IF a # <<>> /\ a[Len(a)] = 0 THEN Trim[SubSeq(a, 1, Len(a) - 1)] ELSE a

\* a + b + c
AddLimbs[a \in Limbs, b \in Limbs, c \in Nat] ==
    IF a = <<>> /\ b = <<>> THEN (IF c = 0 THEN <<>> ELSE <<c>>)
    ELSE <<(First(a) + First(b) + c) % Base>>
           \o AddLimbs[Rest(a), Rest(b), (First(a) + First(b) + c) \div Base]

\* a - b - c for a >= b + c, before Trim
SubLimbs[a \in Limbs, b \in Limbs, c \in Nat] ==
    IF a = <<>> THEN <<>>
    ELSE <<(a[1] - First(b) - c) % Base>>
           \o SubLimbs[Tail(a), Rest(b), IF a[1] - First(b) - c < 0 THEN 1 ELSE 0]

\* -1, 0, 1 as a < b, a = b, a > b
Compare[a \in Limbs, b \in Limbs] ==
    IF Len(a) # Len(b) THEN (IF Len(a) < Len(b) THEN -1 ELSE 1)
    ELSE IF a = <<>> THEN 0
    ELSE IF a[Len(a)] # b[Len(b)] THEN (IF a[Len(a)] < b[Len(b)] THEN -1 ELSE 1)
    ELSE Compare[SubSeq(a, 1, Len(a) - 1), SubSeq(b, 1, Len(b) - 1)]

\* a * d + c for one limb d
Scale[a \in Limbs, d \in Nat, c \in Nat] ==
    IF a = <<>> THEN (IF c = 0 THEN <<>> ELSE <<c>>)
    ELSE <<(a[1] * d + c) % Base>> \o Scale[Tail(a), d, (a[1] * d + c) \div Base]

\* a * b
Times[a \in Limbs, b \in Limbs] ==
    IF a = <<>> \/ b = <<>> THEN <<>>
    ELSE AddLimbs[Scale[a, b[1], 0], <<0>> \o Times[a, Tail(b)], 0]

\* a * 2^k
ShiftLeft[a \in Limbs, k \in Nat] ==
    IF a = <<>> THEN <<>>
    ELSE [i \in 1 .. k \div LimbBits |-> 0] \o Scale[a, Pow2[k % LimbBits], 0]

\* floor(a / 2^k)
ShiftRight[a \in Limbs, k \in Nat] ==
    IF Len(a) <= k \div LimbBits THEN <<>>
    ELSE IF k % LimbBits = 0 THEN SubSeq(a, k \div LimbBits + 1, Len(a))
    ELSE Tail(Scale[SubSeq(a, k \div LimbBits + 1, Len(a)),
                    Pow2[LimbBits - (k % LimbBits)], 0])

\* the number of bits of a
BitLength[a \in Limbs] ==
    IF a = <<>> THEN 0 ELSE LimbBits * (Len(a) - 1) + Bits[a[Len(a)]]

\* the number of zero bits below the lowest one bit of a > 0
TrailingZeros[a \in Limbs] ==
    IF a[1] = 0 THEN LimbBits + TrailingZeros[Tail(a)] ELSE LowZeros[a[1]]

\* <<floor(a / d), a % d>> for one limb d > 0
RECURSIVE QuotRem(_, _)
DivStep[hi \in Limbs \X Nat, limb \in Nat, d \in Nat] ==
    << <<(hi[2] * Base + limb) \div d>> \o hi[1], (hi[2] * Base + limb) % d >>
QuotRem(a, d) ==
    IF a = <<>> THEN << <<>>, 0 >> ELSE DivStep[QuotRem(Tail(a), d), a[1], d]

Zero == <<1, <<>>, 0>>

\* the double s * m * 2^e, for m below 2^53
Canonical[s \in {1, -1}, m \in Limbs, e \in Int] ==
    IF m = <<>> THEN Zero
    ELSE <<s, ShiftRight[m, TrailingZeros[m]], e + TrailingZeros[m]>>

\* the mantissa q = floor(t / 2^k) of t = m + 2^(k-1), made even where m lay
\* half way between two mantissas
TiesToEven[q \in Limbs, tie \in BOOLEAN] ==
    IF tie /\ q[1] % 2 = 1 THEN [q EXCEPT ![1] = @ - 1] ELSE q

\* s * m * 2^e without the k > 0 low bits of m, to the nearest
Nearest[s \in {1, -1}, m \in Limbs, e \in Int, k \in Nat] ==
    Canonical[s, TiesToEven[ShiftRight[AddLimbs[m, ShiftLeft[<<1>>, k - 1], 0], k],
                            TrailingZeros[m] = k - 1],
              e + k]

\* the double nearest to s * m * 2^e
Rounded[s \in {1, -1}, m \in Limbs, e \in Int] ==
    IF BitLength[m] <= MantissaBits THEN Canonical[s, m, e]
    ELSE Nearest[s, m, e, BitLength[m] - MantissaBits]

\* the float of the value n / d, for one limb d > 0: the double nearest to it.
\* Over a power of two the value is a double already; otherwise it is rounded
\* from the quotient to 2 * LimbBits + MantissaBits places and a last bit that
\* tells whether the division left a remainder
FloatBits == 2 * LimbBits + MantissaBits
Quotient[s \in {1, -1}, qr \in Limbs \X Nat] ==
    Rounded[s, Scale[Trim[qr[1]], 2, IF qr[2] = 0 THEN 0 ELSE 1], 0 - FloatBits - 1]
Float(n, d) ==
    IF n = 0 THEN Zero
    ELSE IF d = Pow2[Bits[d] - 1]
    THEN Rounded[IF n < 0 THEN -1 ELSE 1, FromNat[IF n < 0 THEN 0 - n ELSE n], 1 - Bits[d]]
    ELSE Quotient[IF n < 0 THEN -1 ELSE 1,
                  QuotRem(ShiftLeft[FromNat[IF n < 0 THEN 0 - n ELSE n], FloatBits], d)]

\* sx * mx * 2^e + sy * my * 2^e
SignedSum[sx \in {1, -1}, mx \in Limbs, sy \in {1, -1}, my \in Limbs, e \in Int] ==
    IF sx = sy THEN Rounded[sx, AddLimbs[mx, my, 0], e]
    ELSE IF Compare[mx, my] = 0 THEN Zero
    ELSE IF Compare[mx, my] > 0 THEN Rounded[sx, Trim[SubLimbs[mx, my, 0]], e]
    ELSE Rounded[sy, Trim[SubLimbs[my, mx, 0]], e]

\* x + y
Sum[x \in Floats, y \in Floats] ==
    IF x[2] = <<>> THEN y
    ELSE IF y[2] = <<>> THEN x
    ELSE SignedSum[x[1], ShiftLeft[x[2], x[3] - Min(x[3], y[3])],
                   y[1], ShiftLeft[y[2], y[3] - Min(x[3], y[3])], Min(x[3], y[3])]

\* -x
Negated(x) == IF x[2] = <<>> THEN x ELSE <<0 - x[1], x[2], x[3]>>

\* x - y
Difference[x \in Floats, y \in Floats] == Sum[x, Negated(y)]

\* x * y
Product[x \in Floats, y \in Floats] ==
    IF x[2] = <<>> \/ y[2] = <<>> THEN Zero
    ELSE Rounded[x[1] * y[1], Trim[Times[x[2], y[2]]], x[3] + y[3]]

\* -1, 0, 1 as x < 0, x = 0, x > 0
Sign(x) == IF x[2] = <<>> THEN 0 ELSE x[1]

\* |x| < |y|, for x and y other than 0
Smaller[x \in Floats, y \in Floats] ==
    IF BitLength[x[2]] + x[3] # BitLength[y[2]] + y[3]
    THEN BitLength[x[2]] + x[3] < BitLength[y[2]] + y[3]
    ELSE Compare[ShiftLeft[x[2], x[3] - Min(x[3], y[3])],
                 ShiftLeft[y[2], y[3] - Min(x[3], y[3])]] < 0

\* x < y
Less[x \in Floats, y \in Floats] ==
    IF Sign(x) # Sign(y) THEN Sign(x) < Sign(y)
    ELSE IF Sign(x) = 0 THEN FALSE
    ELSE IF Sign(x) = 1 THEN Smaller[x, y]
    ELSE Smaller[y, x]

\* max(x, y)
Greater[x \in Floats, y \in Floats] == IF Less[x, y] THEN y ELSE x

RAdd(x, y) == Sum[x, y]
RSub(x, y) == Difference[x, y]
RMul(x, y) == Product[x, y]
RLess(x, y) == Less[x, y]
RMax(x, y) == Greater[x, y]
One == Float(1, 1)

\* np.max(row)
RECURSIVE MaxUpTo(_, _)
MaxUpTo(row, i) == IF i = 0 THEN row[0] ELSE Greater[MaxUpTo(row, i - 1), row[i]]
RowMax(row) == MaxUpTo(row, Cardinality(DOMAIN row) - 1)

\* maxv = np.max(row); np.where(row == maxv)[0]
Candidates(row) ==
    UNION { { i \in DOMAIN row : row[i] = maxv } : maxv \in {RowMax(row)} }

\* QLearningAgent.__init__
NewAgent(ns, na, cfg) ==
    [n_states |-> ns, n_actions |-> na,
     Q |-> [st \in 0 .. ns - 1 |-> [a \in 0 .. na - 1 |-> Zero]],
     alpha |-> cfg.alpha, gamma |-> cfg.gamma, epsilon |-> cfg.epsilon,
     min_epsilon |-> cfg.min_epsilon, decay |-> cfg.decay]

\* random.random() lies in [0, 1): it can fall below epsilon when epsilon > 0 and
\* can reach epsilon when epsilon < 1
CanExplore(ag) == RLess(Zero, ag.epsilon)
CanExploit(ag) == RLess(ag.epsilon, One)

\* mutant: np.argmax, the lowest maximizing index
GreedyChoices_Lowest(row) ==
    { i \in Candidates(row) : \A j \in Candidates(row) : i <= j }

\* the greedy branch: random.choice among the maximizing indices
GreedyChoices(row) == Candidates(row)

\* QLearningAgent.select_action: the actions it can return
select_action(ag, state) ==
    (IF CanExplore(ag) THEN 0 .. ag.n_actions - 1 ELSE {})
      \cup (IF CanExploit(ag) THEN GreedyChoices(ag.Q[state]) ELSE {})

\* mutant: the maximum taken over the row of the current state
LearnQ_OwnRow(ag, st, a, r, s_next) ==
    LET best_next == RowMax(ag.Q[st])
        td == RSub(RAdd(r, RMul(ag.gamma, best_next)), ag.Q[st][a])
    IN  [ag.Q EXCEPT ![st][a] = RAdd(@, RMul(ag.alpha, td))]

\* the table after learn(s, a, r, s_next)
LearnQ(ag, st, a, r, s_next) ==
    LET best_next == RowMax(ag.Q[s_next])
        td == RSub(RAdd(r, RMul(ag.gamma, best_next)), ag.Q[st][a])
    IN  [ag.Q EXCEPT ![st][a] = RAdd(@, RMul(ag.alpha, td))]

\* epsilon after learn
DecayEpsilon(ag) ==
    IF RLess(ag.min_epsilon, ag.epsilon)
    THEN RMax(RMul(ag.epsilon, ag.decay), ag.min_epsilon)
    ELSE ag.epsilon

\* QLearningAgent.learn
learn(ag, st, a, r, s_next) ==
    [ag EXCEPT !.Q = LearnQ(ag, st, a, r, s_next), !.epsilon = DecayEpsilon(ag)]

\* the agents constructed and the arguments passed to learn
MaxLearns == 2
AgentShape == [n_states |-> 2, n_actions |-> 2]
AgentConfigs ==
    [alpha : {Float(1, 2), Float(1, 10)}, gamma : {Float(1, 2), Float(49, 50)},
     epsilon : {Zero, Float(1, 2), One}, min_epsilon : {Zero, Float(1, 4)},
     decay : {Float(1, 2), One}]
RewardsDrawn == {Float(1, 1), Float(-1, 2)}

InitAgent ==
    /\ config = DefaultArgs
    /\ hospitals = CHOOSE h \in generate_hospitals(Drawn) : TRUE
    /\ ambulances = CHOOSE a \in generate_ambulances(Drawn) : TRUE
    /\ patient = CHOOSE p \in generate_patient(Drawn) : TRUE
    /\ done = FALSE
    /\ mutated = FALSE
    /\ reset_state = encode_state(patient, ambulances, hospitals)
    /\ driver = None
    /\ agent \in { NewAgent(AgentShape.n_states, AgentShape.n_actions, cfg) : cfg \in AgentConfigs }
    /\ nlearn = 0
    /\ ret = CallRecord("QLearningAgent", AgentShape, [raised |-> ""])

SelectAction(state) ==
    /\ \E a \in select_action(agent, state) :
          ret' = CallRecord("select_action", state, [raised |-> "", action |-> a])
    /\ UNCHANGED <<agent, nlearn, driver>>
    /\ UNCHANGED envVars

Learn(st, a, r, s_next) ==
    /\ nlearn < MaxLearns
    /\ agent' = learn(agent, st, a, r, s_next)
    /\ nlearn' = nlearn + 1
    /\ ret' = CallRecord("learn", [s |-> st, a |-> a, r |-> r, s_next |-> s_next],
                         [raised |-> ""])
    /\ UNCHANGED driver
    /\ UNCHANGED envVars

NextAgent ==
    \/ \E state \in 0 .. agent.n_states - 1 : SelectAction(state)
    \/ \E st \in 0 .. agent.n_states - 1, a \in 0 .. agent.n_actions - 1,
          r \in RewardsDrawn, s_next \in 0 .. agent.n_states - 1 : Learn(st, a, r, s_next)

\* any sequence of select_action and learn calls on a constructed agent
AgentSpec == InitAgent /\ [][NextAgent]_vars

(***************************************************************************)
(* train.py: train(episodes, report_every).  calls is the list of the      *)
(* calls the run has made on the environment and on the agent; q_table and *)
(* rewards_file are the contents of results/q_table.npy and                *)
(* results/rewards.npy, None as long as the run has not written them.      *)
(***************************************************************************)
MaxEpisodes == 2
MaxReportEvery == 2

\* alpha=0.1, gamma=0.95, epsilon=0.5, decay=0.9992, min_epsilon=0.01
TrainConfig ==
    [alpha |-> Float(1, 10), gamma |-> Float(19, 20), epsilon |-> Float(1, 2),
     min_epsilon |-> Float(1, 100), decay |-> Float(1249, 1250)]

\* the draw of TrainSpec
DrawnTrain ==
    [hospitals |-> [i \in 0 .. n_hospitals - 1 |->
                      IF i = 0
                      THEN HospitalDraw({6}, {1}, {1}, Flags({TRUE}, {FALSE}, {FALSE}, {FALSE}))
                      ELSE IF i = 1
                      THEN HospitalDraw({1}, {1}, {1}, Flags({FALSE}, {TRUE}, {FALSE}, {FALSE}))
                      ELSE FullHospital(i)],
     ambulances |-> AmbulanceDraw({0}),
     patient |-> [zone |-> {0}, severity |-> {0, 2}, required_specialty |-> {"trauma"}]]

\* env = RuralEnv(...); agent = QLearningAgent(env.n_states, env.action_space, ...);
\* rewards = []; avg_rewards = []
InitTrain ==
    /\ ConstructedEnv(DefaultArgs, DrawnTrain)
    /\ agent = NewAgent(n_states, action_space, TrainConfig)
    /\ nlearn = 0
    /\ \E episodes \in 0 .. MaxEpisodes, report_every \in 0 .. MaxReportEvery :
          driver = [prog |-> "train", pc |-> "loop", episodes |-> episodes,
                    report_every |-> report_every, ep |-> 0,
                    state |-> None, action |-> None, next_s |-> None, reward |-> None,
                    rewards |-> <<>>, avg_rewards |-> <<>>, calls |-> <<>>,
                    q_table |-> None, rewards_file |-> None]

\* for ep in range(1, episodes+1): d.ep iterations are complete
TrainLoopContinues(d) == d.ep < d.episodes

\* state = env.reset()
TrainReset ==
    /\ driver.prog = "train" /\ driver.pc = "loop"
    /\ TrainLoopContinues(driver)
    /\ \E h \in generate_hospitals(DrawnTrain), a \in generate_ambulances(DrawnTrain),
          p \in generate_patient(DrawnTrain) : EnvReset(h, a, p)
    /\ driver' = [driver EXCEPT !.pc = "select", !.state = Some(ret'.result.state),
                                !.calls = Append(@, ret')]
    /\ UNCHANGED agentVars

\* action = agent.select_action(state)
TrainSelectAction ==
    /\ driver.prog = "train" /\ driver.pc = "select"
    /\ driver.state[1] \in DOMAIN agent.Q
    /\ \E a \in select_action(agent, driver.state[1]) :
          ret' = CallRecord("select_action", driver.state[1], [raised |-> "", action |-> a])
    /\ driver' = [driver EXCEPT !.pc = "step", !.action = Some(ret'.result.action),
                                !.calls = Append(@, ret')]
    /\ UNCHANGED agentVars
    /\ UNCHANGED envVars

\* next_s, reward, done, info = env.step(action)
TrainStep ==
    /\ driver.prog = "train" /\ driver.pc = "step"
    /\ EnvStep(driver.action[1])
    /\ driver' = IF ret'.result.raised # ""
                 THEN [driver EXCEPT !.pc = "raised", !.calls = Append(@, ret')]
                 ELSE [driver EXCEPT !.pc = "learn", !.next_s = ret'.result.next_state,
                                     !.reward = Some(ret'.result.reward),
                                     !.calls = Append(@, ret')]
    /\ UNCHANGED agentVars

\* the arguments of agent.learn(state, action, reward, next_s); the reward as the float it is
TrainLearnArgs(d) ==
    [s |-> d.state[1], a |-> d.action[1], r |-> Float(d.reward[1], Unit), s_next |-> d.next_s[1]]

\* agent.learn(state, action, reward, next_s), for the next_s that are indices
TrainLearn ==
    /\ driver.prog = "train" /\ driver.pc = "learn"
    /\ driver.next_s # None
    /\ \E args \in {TrainLearnArgs(driver)} :
           /\ args.s \in DOMAIN agent.Q /\ args.s_next \in DOMAIN agent.Q
           /\ args.a \in DOMAIN agent.Q[args.s]
           /\ agent' = learn(agent, args.s, args.a, args.r, args.s_next)
           /\ ret' = CallRecord("learn", args, [raised |-> ""])
    /\ nlearn' = nlearn + 1
    /\ driver' = [driver EXCEPT !.pc = "append", !.calls = Append(@, ret')]
    /\ UNCHANGED envVars

\* rewards.append(reward); d.ep becomes the loop variable ep of this iteration
TrainAppend ==
    /\ driver.prog = "train" /\ driver.pc = "append"
    /\ driver' = [driver EXCEPT !.pc = "report", !.ep = @ + 1,
                                !.rewards = Append(@, driver.reward[1])]
    /\ UNCHANGED <<agent, nlearn, ret>>
    /\ UNCHANGED envVars

\* rewards[-n:], the last n entries, all of them when the list is shorter
LastOf(rewards, n) ==
    IF n = 0 \/ n >= Len(rewards) THEN rewards
    ELSE SubSeq(rewards, Len(rewards) - n + 1, Len(rewards))

RECURSIVE Total(_)
Total(rewards) == IF rewards = <<>> THEN 0 ELSE Head(rewards) + Total(Tail(rewards))

\* np.mean of a nonempty list of rewards: their sum, which is exact, divided by
\* their number
Mean(rewards) == Float(Total(rewards), Unit * Len(rewards))

\* what the test of ep % report_every does: raise on a zero divisor, append
\* (ep, avg) to avg_rewards on a multiple of report_every, nothing otherwise
TrainReportOutcome(d) ==
    IF d.report_every = 0
    THEN [raised |-> "ZeroDivisionError", avg_rewards |-> d.avg_rewards]
    ELSE IF d.ep % d.report_every = 0
    THEN [raised |-> "",
          avg_rewards |-> Append(d.avg_rewards,
                                 <<d.ep, Mean(LastOf(d.rewards, d.report_every))>>)]
    ELSE [raised |-> "", avg_rewards |-> d.avg_rewards]

\* if ep % report_every == 0: avg = np.mean(rewards[-report_every:]);
\* avg_rewards.append((ep, avg))
TrainReport ==
    /\ driver.prog = "train" /\ driver.pc = "report"
    /\ \E r \in {TrainReportOutcome(driver)} :
          /\ ret' = CallRecord("report", driver.ep, r)
          /\ driver' = [driver EXCEPT !.pc = IF r.raised # "" THEN "raised" ELSE "loop",
                                      !.avg_rewards = r.avg_rewards]
    /\ UNCHANGED agentVars
    /\ UNCHANGED envVars

\* the loop is over: np.save of agent.Q and of np.array(rewards)
TrainSave ==
    /\ driver.prog = "train" /\ driver.pc = "loop"
    /\ ~TrainLoopContinues(driver)
    /\ driver' = [driver EXCEPT !.pc = "plot", !.q_table = Some(agent.Q),
                                !.rewards_file = Some(driver.rewards)]
    /\ ret' = CallRecord("save", Len(driver.rewards), [raised |-> ""])
    /\ UNCHANGED <<agent, nlearn>>
    /\ UNCHANGED envVars

\* window = max(1, episodes//100)
PlotWindow(episodes) == IF episodes \div 100 > 1 THEN episodes \div 100 ELSE 1

\* np.convolve(rewards, np.ones(window)/window, mode='valid') raises ValueError
\* on an empty rewards; otherwise the curve is drawn and the run is over
TrainPlot ==
    /\ driver.prog = "train" /\ driver.pc = "plot"
    /\ ret' = CallRecord("plot", PlotWindow(driver.episodes),
                         [raised |-> IF driver.rewards = <<>> THEN "ValueError" ELSE ""])
    /\ driver' = [driver EXCEPT !.pc = IF driver.rewards = <<>> THEN "raised" ELSE "done"]
    /\ UNCHANGED agentVars
    /\ UNCHANGED envVars

NextTrain ==
    \/ TrainReset
    \/ TrainSelectAction
    \/ TrainStep
    \/ TrainLearn
    \/ TrainAppend
    \/ TrainReport
    \/ TrainSave
    \/ TrainPlot

\* one training run; the script runs on as long as it has a next statement
TrainSpec == InitTrain /\ [][NextTrain]_vars /\ WF_vars(NextTrain)

(***************************************************************************)
(* demo.py and app.py: the consumers of the table that train saved.  A     *)
(* consumer starts once the training run is over; it builds an environment *)
(* of its own (demo.py: a fixed configuration, app.py: the configuration   *)
(* picked in the sidebar) and loads results/q_table.npy, which is there    *)
(* only if the training run came to write it.                              *)
(***************************************************************************)
MaxTrained == 1
MaxRuns == 2

\* np.argmax: the first index holding the maximum
ArgMax(row) ==
    CHOOSE i \in Candidates(row) : \A j \in Candidates(row) : i <= j

\* the st.selectbox lists of the sidebar: hospitals, ambulances, grid size
SidebarHospitals == {5, 6, 7, 8}
SidebarAmbulances == {2, 3, 4, 5}
SidebarGrids == {<<4, 4>>, <<5, 5>>, <<6, 6>>}

\* the arguments a consumer passes to RuralEnv
ConsumerArgs(prog) ==
    IF prog = "demo"
    THEN {DefaultArgs}
    ELSE { RuralEnvArgs(g[1], g[2], nh, na) :
             g \in SidebarGrids, nh \in SidebarHospitals, na \in SidebarAmbulances }

\* the draw of ConsumerSpec; action holds the values enumerated for np.random.randint
DrawnConsumer ==
    [hospitals |-> [i \in 0 .. n_hospitals - 1 |->
                      IF i = 0
                      THEN HospitalDraw({6}, {1}, {1}, Flags({TRUE}, {FALSE}, {FALSE}, {FALSE}))
                      ELSE IF i = 1
                      THEN HospitalDraw({1}, {1}, {1}, Flags({FALSE}, {TRUE}, {FALSE}, {FALSE}))
                      ELSE FullHospital(i)],
     ambulances |-> AmbulanceDraw({0, 15}),
     patient |-> [zone |-> {0}, severity |-> {0, 2}, required_specialty |-> {"trauma"}],
     action |-> {0, 9}]

\* the training runs whose table the consumers load
InitConsumer ==
    /\ InitTrain
    /\ driver.episodes <= MaxTrained

\* env = RuralEnv(grid, n_hospitals, n_ambulances), whose last statement is
\* self.reset(); try: Q = np.load("results/q_table.npy") except: Q = None
ConsumerStart(prog, args) ==
    /\ driver.prog = "train" /\ driver.pc \in {"done", "raised"}
    /\ config' = args
    /\ \E h \in (generate_hospitals(DrawnConsumer))',
          a \in (generate_ambulances(DrawnConsumer))',
          p \in (generate_patient(DrawnConsumer))' :
        /\ hospitals' = h
        /\ ambulances' = a
        /\ patient' = p
        /\ done' = FALSE
        /\ ret' = CallRecord("reset", 0, [raised |-> "", state |-> (encode_state(p, a, h))'])
        /\ reset_state' = (encode_state(p, a, h))'
        /\ mutated' = FALSE
    /\ driver' = [prog |-> prog, pc |-> "reset", Q |-> driver.q_table, runs |-> 0,
                  state |-> None, action |-> None]
    /\ UNCHANGED agentVars

\* s = env.reset()
ConsumerReset ==
    /\ driver.prog \in {"demo", "app"} /\ driver.pc = "reset"
    /\ driver.runs < MaxRuns
    /\ \E h \in generate_hospitals(DrawnConsumer), a \in generate_ambulances(DrawnConsumer),
          p \in generate_patient(DrawnConsumer) : EnvReset(h, a, p)
    /\ driver' = [driver EXCEPT !.pc = "select", !.state = Some(ret'.result.state)]
    /\ UNCHANGED agentVars

\* the actions the consumer can pick without a table: demo.py takes 0, app.py
\* np.random.randint(0, n_ambulances * n_hospitals)
FallbackActions(prog) ==
    IF prog = "demo" THEN {0}
    ELSE DrawnConsumer.action \cap (0 .. n_ambulances * n_hospitals - 1)

\* Q[state] of a numpy array of n rows
TableRow(Q, state) ==
    LET n == Cardinality(DOMAIN Q)
    IN  IF InList(state, n) THEN Some(Q[ListIndex(state, n)]) ELSE None

\* row = Q[state]; action = int(np.argmax(row)); app.py then reads
\* info["ambulances"][amb_idx] and hospital_zones[hosp_idx] for the grid view.
\* action is what the statement assigns to the variable action: None when Q[state]
\* raises, which is before the assignment; the argmax when the grid view raises,
\* which is after it
ConsumerLookup(prog, Q, state) ==
    IF Q = None
    THEN { [raised |-> "", action |-> Some(a)] : a \in FallbackActions(prog) }
    ELSE IF TableRow(Q[1], state) = None
    THEN { [raised |-> "IndexError", action |-> None] }
    ELSE { [raised |-> IF prog = "app" /\ (\/ ~InList(DecodeAction(action).amb_idx, n_ambulances)
                                          \/ ~InList(DecodeAction(action).hosp_idx, n_hospitals))
                       THEN "IndexError" ELSE "",
            action |-> Some(action)]
           : action \in {ArgMax(TableRow(Q[1], state)[1])} }

ConsumerSelect ==
    /\ driver.prog \in {"demo", "app"} /\ driver.pc = "select"
    /\ \E r \in ConsumerLookup(driver.prog, driver.Q, driver.state[1]) :
          /\ ret' = CallRecord("lookup", driver.state[1],
                               IF r.raised # "" THEN [raised |-> r.raised]
                               ELSE [raised |-> "", action |-> r.action[1]])
          /\ driver' = [driver EXCEPT !.pc = IF r.raised # "" THEN "raised" ELSE "step",
                                      !.action = IF r.action = None THEN @ ELSE r.action]
    /\ UNCHANGED agentVars
    /\ UNCHANGED envVars

\* ns, r, done, info = env.step(a)
ConsumerStep ==
    /\ driver.prog \in {"demo", "app"} /\ driver.pc = "step"
    /\ EnvStep(driver.action[1])
    /\ driver' = [driver EXCEPT !.pc = "reset", !.runs = @ + 1]
    /\ UNCHANGED agentVars

NextConsumer ==
    \/ NextTrain
    \/ \E prog \in {"demo", "app"} : \E args \in ConsumerArgs(prog) : ConsumerStart(prog, args)
    \/ ConsumerReset
    \/ ConsumerSelect
    \/ ConsumerStep

\* a training run, then a consumer run of up to MaxRuns episodes
ConsumerSpec == InitConsumer /\ [][NextConsumer]_vars

(***************************************************************************)
(* Properties.  ret is the record of the last thing that happened, so a    *)
(* transition whose new ret has op "step" is a step call (or stuttering).  *)
(***************************************************************************)
AmbOf(action) == action \div n_hospitals
HospOf(action) == action % n_hospitals

ValidAction(action) == 0 <= action /\ action < n_ambulances * n_hospitals

OutOfRange(action) ==
    \/ ~(0 <= AmbOf(action) /\ AmbOf(action) < n_ambulances)
    \/ ~(0 <= HospOf(action) /\ HospOf(action) < n_hospitals)

InStateRange(x) == x \in Int /\ 0 <= x /\ x < 3 * n_ambulances * 2

Returned(r) == r.op = "step" /\ r.result.raised = ""

Scored(r) == Returned(r) /\ "success" \in DOMAIN r.result.info

IsInvalidActionResult(r) ==
    /\ r.raised = ""
    /\ r.next_state = None
    /\ r.reward = -50 * Unit
    /\ r.done = TRUE
    /\ r.info = [reason |-> "invalid_action"]

\* C1 (as claimed): every step whose decoded ambulance or hospital index is out of
\* range, negative actions included, returns (-50, terminal, invalid_action) and
\* leaves hospitals, ambulances and patient unchanged.
C1_OutOfRangeRejected ==
    [][ (ret'.op = "step" /\ OutOfRange(ret'.arg))
          => (IsInvalidActionResult(ret'.result)
              /\ UNCHANGED <<hospitals, ambulances, patient>>) ]_vars

\* C2 (as claimed): every outcome of reset and of step carries a state index in
\* 0 .. 3 * n_ambulances * 2 - 1.
C2_EveryOutcomeHasIndex ==
    /\ ret.op = "reset" => InStateRange(ret.result.state)
    /\ Returned(ret) => (ret.result.next_state # None
                         /\ InStateRange(ret.result.next_state[1]))

\* C2 (amended): reset returns an index in range; step returns an index in range
\* on every outcome that reaches scoring (success or capacity failure) and returns
\* None, no index, on invalid_action and on ambulance_not_idle.
C2_StateIndexInRange ==
    /\ ret.op = "reset" => InStateRange(ret.result.state)
    /\ Returned(ret) =>
         IF ret.result.info.reason \in {"invalid_action", "ambulance_not_idle"}
         THEN ret.result.next_state = None
         ELSE /\ Scored(ret)
              /\ Len(ret.result.next_state) = 1
              /\ InStateRange(ret.result.next_state[1])

\* the largest index is returned by a step: critical patient, the last ambulance nearest
C2_Witness ==
    /\ Scored(ret)
    /\ ret.result.next_state = Some(3 * n_ambulances * 2 - 1)
    /\ patient.severity = 2

HospitalBounds ==
    \A i \in DOMAIN hospitals :
        /\ 0 <= hospitals[i].available_beds
        /\ hospitals[i].available_beds <= hospitals[i].total_beds
        /\ 0 <= hospitals[i].icu_available
        /\ hospitals[i].icu_available <= hospitals[i].icu_total

\* C3: after any sequence of reset and step calls every hospital has
\* 0 <= available_beds <= total_beds and 0 <= icu_available <= icu_total, and a
\* step that dispatches to a hospital with no available bed reports success =
\* false and leaves its available_beds at 0.
C3_BedsNeverNegative ==
    /\ []HospitalBounds
    /\ [][ (/\ ret'.op = "step"
            /\ ValidAction(ret'.arg)
            /\ ambulances[AmbOf(ret'.arg)].status = "idle"
            /\ hospitals[HospOf(ret'.arg)].available_beds = 0)
             => (/\ Scored(ret')
                 /\ ret'.result.info.success = FALSE
                 /\ hospitals'[HospOf(ret'.arg)].available_beds = 0) ]_vars

\* a second dispatch to a hospital whose last bed and ICU place an earlier step took
C3_Witness ==
    /\ Scored(ret)
    /\ ValidAction(ret.arg)
    /\ ret.result.info.success = FALSE
    /\ ret.result.info.reason = "no_icu;no_beds;"
    /\ hospitals[HospOf(ret.arg)].available_beds = 0
    /\ hospitals[HospOf(ret.arg)].icu_available = 0

\* the reward of the claim, times Unit, from the state before the step
ClaimedPenalties(p, hosp) ==
    (IF p.severity = 2 /\ hosp.icu_available <= 0 THEN -40 * Unit ELSE 0)
      + (IF hosp.available_beds <= 0 THEN -20 * Unit ELSE 0)
      + (IF p.required_specialty # NoSpecialty /\ ~hosp.specialties[p.required_specialty]
         THEN -10 * Unit ELSE 0)

ClaimedHops(p, amb, hosp) ==
    manhattan_zone_distance(p.zone, amb.zone, GridCols)
      + manhattan_zone_distance(amb.zone, hosp.zone, GridCols)

\* ((hops * 6) / 2) * Unit, hops * 6 taken times 1.5 first when critical
ClaimedTimeUnits(p, hops) ==
    IF p.severity = 2 THEN (hops * 6 * 3 * Unit) \div 4 ELSE (hops * 6 * Unit) \div 2

ClaimedCapacityFailure(p, hosp) ==
    (p.severity = 2 /\ hosp.icu_available <= 0) \/ hosp.available_beds <= 0

ClaimedReward(p, amb, hosp) ==
    ClaimedPenalties(p, hosp)
      - ClaimedTimeUnits(p, ClaimedHops(p, amb, hosp))
      + (IF ClaimedCapacityFailure(p, hosp) THEN -5 * Unit ELSE 50 * Unit)

\* a step with a valid action whose ambulance is idle
Dispatch == /\ ret'.op = "step"
            /\ ValidAction(ret'.arg)
            /\ ambulances[AmbOf(ret'.arg)].status = "idle"

\* C4 (as claimed): the reward is the sum of the triggered penalties, the time
\* penalty and the bonus or failure penalty, and with no penalty triggered it is
\* 50 - 3 * hops.
C4_RewardAsClaimed ==
    [][ Dispatch =>
          LET amb == ambulances[AmbOf(ret'.arg)]
              hosp == hospitals[HospOf(ret'.arg)]
          IN  /\ Scored(ret')
              /\ ret'.result.reward = ClaimedReward(patient, amb, hosp)
              /\ ClaimedPenalties(patient, hosp) = 0
                   => ret'.result.reward
                        = 50 * Unit - 3 * Unit * ClaimedHops(patient, amb, hosp) ]_vars

\* C4 (amended): the reward is that sum; with no penalty triggered it is
\* 50 - 3 * hops for a patient who is not critical and 50 - 4.5 * hops for a
\* critical one.
C4_Reward ==
    [][ Dispatch =>
          LET amb == ambulances[AmbOf(ret'.arg)]
              hosp == hospitals[HospOf(ret'.arg)]
              hops == ClaimedHops(patient, amb, hosp)
          IN  /\ Scored(ret')
              /\ ret'.result.reward = ClaimedReward(patient, amb, hosp)
              /\ ClaimedPenalties(patient, hosp) = 0
                   => ret'.result.reward
                        = IF patient.severity = 2
                          THEN 50 * Unit - (9 * Unit * hops) \div 2
                          ELSE 50 * Unit - 3 * Unit * hops ]_vars

\* a critical patient delivered over 3 hops with no penalty: 50 - 13.5 = 36.5
C4_Witness ==
    /\ Scored(ret)
    /\ ValidAction(ret.arg)
    /\ patient.severity = 2
    /\ ret.result.info.reason = ""
    /\ ret.result.info.success = TRUE
    /\ ret.result.info.dist_hops = 3
    /\ ret.result.reward * 2 = 73 * Unit

\* C5: success is false exactly when no_icu or no_beds is triggered; a specialty
\* mismatch alone leaves it true; a critical patient at a hospital without a free
\* ICU place fails whatever the bed count; reason is the triggered flags in the
\* order no_icu, no_beds, no_specialty.
C5_SuccessAndReason ==
    [][ Dispatch =>
          LET hosp == hospitals[HospOf(ret'.arg)]
              no_icu == patient.severity = 2 /\ hosp.icu_available <= 0
              no_beds == hosp.available_beds <= 0
              no_specialty == /\ patient.required_specialty # NoSpecialty
                              /\ ~hosp.specialties[patient.required_specialty]
              flags == (IF no_icu THEN <<"no_icu;">> ELSE <<>>)
                         \o (IF no_beds THEN <<"no_beds;">> ELSE <<>>)
                         \o (IF no_specialty THEN <<"no_specialty;">> ELSE <<>>)
              joined == IF flags = <<>> THEN ""
                        ELSE IF Len(flags) = 1 THEN flags[1]
                        ELSE IF Len(flags) = 2 THEN flags[1] \o flags[2]
                        ELSE flags[1] \o flags[2] \o flags[3]
          IN  /\ Scored(ret')
              /\ ret'.result.info.success = ~(no_icu \/ no_beds)
              /\ ret'.result.info.reason = joined ]_vars

\* a critical patient, no free ICU place, a free bed, the specialty missing
C5_Witness ==
    /\ Scored(ret)
    /\ ValidAction(ret.arg)
    /\ ret.result.info.reason = "no_icu;no_specialty;"
    /\ ret.result.info.success = FALSE
    /\ hospitals[HospOf(ret.arg)].available_beds > 0

\* C6: a step changes hospitals only on a successful outcome: the selected
\* hospital loses one available bed, and one ICU place exactly when the patient
\* is critical; nothing else changes, and an unsuccessful step changes nothing.
C6_Frame ==
    [][ ret'.op = "step" =>
          LET h == HospOf(ret'.arg)
          IN  /\ ambulances' = ambulances
              /\ patient' = patient
              /\ IF Scored(ret') /\ ret'.result.info.success
                 THEN hospitals' =
                        [hospitals EXCEPT
                           ![h].available_beds = @ - 1,
                           ![h].icu_available = IF patient.severity = 2 THEN @ - 1 ELSE @]
                 ELSE hospitals' = hospitals ]_vars

\* a critical patient admitted: the hospital's last bed and last ICU place are taken
C6_Witness ==
    /\ Scored(ret)
    /\ ret.result.info.success = TRUE
    /\ patient.severity = 2
    /\ hospitals[HospOf(ret.arg)].available_beds = 0
    /\ hospitals[HospOf(ret.arg)].icu_available = 0

\* C7 (as claimed): every step that returns reports the terminal flag true and
\* leaves the environment's own done flag true; reset sets it to false.
C7_DoneAfterEveryStep ==
    /\ ret.op = "reset" => done = FALSE
    /\ Returned(ret) => (ret.result.done = TRUE /\ done = TRUE)

\* C8: right after a reset every ambulance is idle, so a step that directly
\* follows a reset never returns ambulance_not_idle; a step whose selected
\* ambulance is not idle returns reward -40, terminal, reason ambulance_not_idle.
C8_IdleAtDecisionTime ==
    /\ [](ret.op = "reset" => \A i \in DOMAIN ambulances : ambulances[i].status = "idle")
    /\ [][ (ret.op = "reset" /\ Returned(ret'))
             => ret'.result.info.reason # "ambulance_not_idle" ]_vars
    /\ [][ (/\ ret'.op = "step"
            /\ ValidAction(ret'.arg)
            /\ ambulances[AmbOf(ret'.arg)].status # "idle")
             => (/\ Returned(ret')
                 /\ ret'.result.reward = -40 * Unit
                 /\ ret'.result.done = TRUE
                 /\ ret'.result.info.reason = "ambulance_not_idle") ]_vars

\* the guard has fired: only after a caller overwrote a status
C8_Witness ==
    /\ Returned(ret)
    /\ ret.result.info.reason = "ambulance_not_idle"
    /\ mutated

\* C9: with epsilon = 0 select_action returns only indices holding the maximum of
\* the state's row, every such index can be returned, and the call changes
\* neither the table nor epsilon.
C9_GreedyTieBreak ==
    /\ [][ ret'.op = "select_action" =>
             /\ agent' = agent
             /\ agent.epsilon = Zero =>
                  \A a \in DOMAIN agent.Q[ret'.arg] :
                      ~RLess(agent.Q[ret'.arg][ret'.result.action], agent.Q[ret'.arg][a]) ]_vars
    /\ [](agent.epsilon = Zero =>
            \A st \in DOMAIN agent.Q : \A a \in DOMAIN agent.Q[st] :
                (\A b \in DOMAIN agent.Q[st] : ~RLess(agent.Q[st][a], agent.Q[st][b]))
                  => ENABLED (SelectAction(st) /\ ret'.result.action = a))

\* a tie between two learned values, broken in favour of the higher index
C9_Witness ==
    /\ ret.op = "select_action"
    /\ agent.epsilon = Zero
    /\ agent.Q[ret.arg][0] # Zero
    /\ agent.Q[ret.arg][0] = agent.Q[ret.arg][1]
    /\ ret.result.action = 1

\* C10: learn sets Q[s, a] to its old value plus alpha * (reward + gamma * max of
\* the row of next_state before the update - old value) and leaves every other
\* entry alone; nothing but learn changes the table.
C10_TDUpdate ==
    [][ IF ret'.op = "learn"
        THEN LET st == ret'.arg.s
                 a == ret'.arg.a
                 old == agent.Q[st][a]
                 best == RowMax(agent.Q[ret'.arg.s_next])
                 target == RAdd(ret'.arg.r, RMul(agent.gamma, best))
             IN  /\ agent'.Q[st][a] = RAdd(old, RMul(agent.alpha, RSub(target, old)))
                 /\ \A s2 \in DOMAIN agent.Q : \A a2 \in DOMAIN agent.Q[s2] :
                        (s2 # st \/ a2 # a) => agent'.Q[s2][a2] = agent.Q[s2][a2]
                 /\ DOMAIN agent'.Q = DOMAIN agent.Q
        ELSE agent'.Q = agent.Q ]_vars

\* learn(0, 0, 1.0, 0) twice with the defaults alpha = 0.1, gamma = 0.98: 0.1, then
\* 0.1 + 0.1 * (1.0 + 0.98 * 0.1 - 0.1) = 0.19980000000000003, not the double 0.1998
C10_Witness ==
    /\ ret.op = "learn"
    /\ ret.arg = [s |-> 0, a |-> 0, r |-> One, s_next |-> 0]
    /\ agent.alpha = Float(1, 10) /\ agent.gamma = Float(49, 50)
    /\ agent.Q[0][0] = RAdd(Float(1, 10),
                            RMul(Float(1, 10),
                                 RSub(RAdd(One, RMul(Float(49, 50), Float(1, 10))),
                                      Float(1, 10))))
    /\ RLess(Float(999, 5000), agent.Q[0][0])

\* C11 (as claimed): each learn call sets epsilon to max(previous epsilon * decay,
\* min_epsilon), so epsilon is at least min_epsilon after every learn call, and
\* nothing but learn changes epsilon.
C11_EpsilonFloored ==
    [][ IF ret'.op = "learn"
        THEN /\ agent'.epsilon = RMax(RMul(agent.epsilon, agent.decay), agent.min_epsilon)
             /\ ~RLess(agent'.epsilon, agent.min_epsilon)
        ELSE agent'.epsilon = agent.epsilon ]_vars

\* the calls of iteration k (from 0) of a training run, in order
CallsOf(k) == SubSeq(driver.calls, 4 * k + 1, 4 * k + 4)

IterationAsClaimed(k) ==
    \A c \in {CallsOf(k)} :
        /\ c[1].op = "reset"
        /\ c[2].op = "select_action" /\ c[2].arg = c[1].result.state
        /\ c[3].op = "step" /\ c[3].arg = c[2].result.action
        /\ c[3].result.raised = ""
        /\ c[4].op = "learn"
        /\ c[3].result.next_state # None
        /\ c[4].arg = [s |-> c[1].result.state, a |-> c[2].result.action,
                       r |-> Float(c[3].result.reward, Unit),
                       s_next |-> c[3].result.next_state[1]]
        /\ c[1].result.state \in 0 .. agent.n_states - 1
        /\ c[3].result.next_state[1] \in 0 .. agent.n_states - 1
        /\ c[2].result.action \in 0 .. agent.n_actions - 1
        /\ driver.rewards[k + 1] = c[3].result.reward

TrainOrder == <<"reset", "select_action", "step", "learn">>

\* the loop of the run is over and its table and reward trace are written
TrainFinished == driver.q_table # None /\ driver.rewards_file # None

\* C12 (as claimed): a training run of N iterations makes, per iteration and in
\* this order, one reset, one select_action on the state reset returned, one step
\* with the selected action and one learn with (that state, that action, the
\* step's reward, the step's next state); every index used on the table is within
\* its shape (n_states, n_actions), which never changes; the run terminates after
\* N iterations, that is, it does not stop by raising before it has written its
\* reward trace and it does come to write it, and the trace then has N entries in
\* iteration order.
C12_TrainingRun ==
    /\ [](\A i \in 1 .. Len(driver.calls) : driver.calls[i].op = TrainOrder[((i - 1) % 4) + 1])
    /\ [](\A k \in 0 .. driver.ep - 1 : IterationAsClaimed(k))
    /\ [](/\ DOMAIN agent.Q = 0 .. n_states - 1
          /\ \A st \in DOMAIN agent.Q : DOMAIN agent.Q[st] = 0 .. action_space - 1)
    /\ [](TrainFinished =>
            /\ driver.ep = driver.episodes
            /\ driver.rewards_file = Some(driver.rewards)
            /\ Len(driver.rewards) = driver.episodes
            /\ Len(driver.calls) = 4 * driver.episodes)
    /\ [](driver.pc = "raised" => TrainFinished)
    /\ <>TrainFinished

\* C13: for every ambulance index a and hospital index h in range, the action
\* a * n_hospitals + h lies in 0 .. n_ambulances * n_hospitals - 1 and step decodes
\* it back to (a, h), the pair its outcome record reports; every action in that
\* range decodes to a pair in range.
C13_DecodeRoundTrip ==
    /\ [](\A a \in 0 .. n_ambulances - 1, h \in 0 .. n_hospitals - 1 :
            /\ a * n_hospitals + h \in 0 .. n_ambulances * n_hospitals - 1
            /\ DecodeAction(a * n_hospitals + h) = [amb_idx |-> a, hosp_idx |-> h])
    /\ [](\A action \in 0 .. n_ambulances * n_hospitals - 1 :
            /\ DecodeAction(action).amb_idx \in 0 .. n_ambulances - 1
            /\ DecodeAction(action).hosp_idx \in 0 .. n_hospitals - 1)
    /\ [][ \A a \in 0 .. n_ambulances - 1, h \in 0 .. n_hospitals - 1 :
             (ret'.op = "step" /\ ret'.arg = a * n_hospitals + h)
               => /\ Returned(ret')
                  /\ ret'.result.info.reason # "invalid_action"
                  /\ ambulances[a].status = "idle"
                       => /\ Scored(ret')
                          /\ ret'.result.info.ambulance = a
                          /\ ret'.result.info.hospital = h ]_vars

\* action 6 = 1 * n_hospitals + 0 was scored as ambulance 1, hospital 0
C13_Witness ==
    /\ Scored(ret)
    /\ ret.arg = 1 * n_hospitals + 0
    /\ ret.result.info.ambulance = 1
    /\ ret.result.info.hospital = 0
    /\ ambulances[0].zone # ambulances[1].zone

\* the shape of a numpy table: (rows, columns)
Shape(Q) == <<Cardinality(DOMAIN Q), Cardinality(DOMAIN Q[0])>>

\* C15 (as claimed): a consumer acting from a loaded table only indexes it with a
\* state index below its row count, only passes step an action in
\* 0 .. n_ambulances * n_hospitals - 1, and never gets invalid_action from step;
\* a table whose shape is not (n_states, n_ambulances * n_hospitals) of the
\* environment the consumer constructed is never used.
C15_TableShapeChecked ==
    driver.prog \in {"demo", "app"} =>
        /\ (ret.op = "lookup" /\ driver.Q # None) =>
              /\ Shape(driver.Q[1]) = <<n_states, n_ambulances * n_hospitals>>
              /\ ret.arg \in 0 .. Shape(driver.Q[1])[1] - 1
              /\ ret.result.raised = ""
        /\ ret.op = "step" =>
              /\ ValidAction(ret.arg)
              /\ ret.result.raised = ""
              /\ ret.result.info.reason # "invalid_action"

\* C16 (as claimed): a step that dispatches (valid action, selected ambulance
\* idle) leaves the selected ambulance busy, and no later step makes a busy
\* ambulance idle again.
C16_DispatchMarksBusy ==
    /\ [][ Dispatch => ambulances'[AmbOf(ret'.arg)].status = "busy" ]_vars
    /\ [][ ret'.op = "step" =>
             \A i \in DOMAIN ambulances :
                 ambulances[i].status = "busy" => ambulances'[i].status = "busy" ]_vars

\* the three components of a state index
SeverityOf(idx) == idx \div (n_ambulances * 2)
NearestOf(idx) == (idx % (n_ambulances * 2)) \div 2
FlagOf(idx) == idx % 2

\* some hospital offers the patient's required specialty with a free bed, or no
\* specialty is required: the flag of the state a step starts from
FlagBefore ==
    IF patient.required_specialty = NoSpecialty THEN 1
    ELSE IF \E i \in DOMAIN hospitals :
              /\ hospitals[i].specialties[patient.required_specialty]
              /\ hospitals[i].available_beds > 0
         THEN 1 ELSE 0

\* the step about to admit the patient takes the last free bed of hospital h, the
\* only hospital offering the required specialty with a free bed
ConsumesLastBed(h) ==
    /\ ret'.result.info.success
    /\ patient.required_specialty # NoSpecialty
    /\ hospitals[h].specialties[patient.required_specialty]
    /\ hospitals[h].available_beds = 1
    /\ \A j \in DOMAIN hospitals \ {h} :
           ~(hospitals[j].specialties[patient.required_specialty]
             /\ hospitals[j].available_beds > 0)

\* C17 (as claimed): for every step with a valid action and an idle ambulance the
\* returned index has the severity and nearest-ambulance components of the index
\* the preceding reset returned; the flag differs from that index's only as 1 to
\* 0, exactly when this step consumed the last available bed of the only
\* hospital offering the required specialty with a free bed.
C17_AgainstResetIndex ==
    [][ Dispatch =>
          /\ Scored(ret')
          /\ LET ns == ret'.result.next_state[1]
             IN  /\ SeverityOf(ns) = SeverityOf(reset_state)
                 /\ NearestOf(ns) = NearestOf(reset_state)
                 /\ FlagOf(ns) # FlagOf(reset_state)
                      => (FlagOf(reset_state) = 1 /\ FlagOf(ns) = 0)
                 /\ (FlagOf(reset_state) = 1 /\ FlagOf(ns) = 0)
                      <=> ConsumesLastBed(HospOf(ret'.arg)) ]_vars

\* C17 (amended): the severity and nearest-ambulance components are those of the
\* index the preceding reset returned and the flag is never 1 where that index
\* had 0; the flag is 0 where the state the step started from had 1 exactly when
\* this step consumed the last available bed of the only hospital offering the
\* required specialty with a free bed.  The state a step starts from is the one
\* reset returned when the step directly follows the reset.
C17_NextStateIndex ==
    /\ [](ret.op = "reset" => /\ ret.result.state = reset_state
                              /\ FlagOf(reset_state) = FlagBefore)
    /\ [][ Dispatch =>
             /\ Scored(ret')
             /\ LET ns == ret'.result.next_state[1]
                IN  /\ SeverityOf(ns) = SeverityOf(reset_state)
                    /\ NearestOf(ns) = NearestOf(reset_state)
                    /\ FlagOf(ns) <= FlagOf(reset_state)
                    /\ FlagOf(ns) <= FlagBefore
                    /\ (FlagBefore = 1 /\ FlagOf(ns) = 0)
                         <=> ConsumesLastBed(HospOf(ret'.arg)) ]_vars

\* the step right after a reset admitted the patient to the only hospital that
\* offered trauma with a free bed: the flag went from 1 to 0
C17_Witness ==
    /\ Scored(ret)
    /\ ret.result.info.success
    /\ FlagOf(reset_state) = 1
    /\ FlagOf(ret.result.next_state[1]) = 0
    /\ patient.required_specialty = "trauma"
    /\ hospitals[HospOf(ret.arg)].available_beds = 0

====
